---- MODULE Spec2Model ----
(***************************************************************************)
(* FoodGI session/authentication state management.                         *)
(*                                                                         *)
(* AuthService (src/src/services/authService.js) orchestrates three        *)
(* collaborators: the identity provider (auth()), the profile store        *)
(* (firestore().collection('users')) and the credential cache              *)
(* (AsyncStorage).  AuthProvider (src/src/contexts/AuthContext.js) wraps   *)
(* the service operations and keeps the session view (currentUser,         *)
(* loading, error) that AppNavigator gates on.                             *)
(*                                                                         *)
(* Every `await` of a collaborator call is one step of the calling         *)
(* operation: the call takes effect or fails, and the operation runs on to *)
(* its next await or to its return.                                        *)
(***************************************************************************)
EXTENDS Integers, Sequences, FiniteSets, TLC

\* ---------------------------------------------------------------- bounds
MaxOps == 2         \* operations started and provider sign-outs in one run
MaxInFlight == 2    \* operations in flight at once when calls overlap
MaxPending == 1     \* identity-change notifications not yet delivered

\* ------------------------------------------------------- program constants
USER_DATA_KEY == "@GI Tracker:userData"
AUTH_TOKEN_KEY == "@GI Tracker:authToken"

\* ------------------------------------------------------------ JS values
\* A JS value is a tagged record, so that values of different kinds can be
\* compared.  A JS object is a function from its own keys to values.
Null == [k |-> "null"]
Undefined == [k |-> "undefined"]
Str(s) == [k |-> "str", s |-> s]
\* A Firestore Timestamp (what serverTimestamp() resolves to on read).
Ts(n) == [k |-> "timestamp", n |-> n]
\* What JSON.stringify/parse leaves of a Timestamp: a plain object.
JsonTs(n) == [k |-> "object", n |-> n]

EmptyObj == [key \in {} |-> Null]

\* obj.key : undefined when the key is absent
Get(obj, key) == IF key \in DOMAIN obj THEN obj[key] ELSE Undefined

\* JS truthiness of the values used here
Falsy(v) == v \in {Null, Undefined, Str("")}

\* a || b
OrElse(a, b) == IF Falsy(a) THEN b ELSE a

\* { ...a, ...b } ; spreading null or undefined contributes nothing
Props(o) == IF o \in {Null, Undefined} THEN EmptyObj ELSE o
Spread(a, b) ==
    [key \in DOMAIN Props(a) \cup DOMAIN Props(b) |->
        IF key \in DOMAIN Props(b) THEN Props(b)[key] ELSE Props(a)[key]]

\* JSON.stringify(obj): keys holding undefined are dropped, a Timestamp is
\* serialised as a plain object; the result is a string, not an object.
JSONvalue(v) == IF v.k = "timestamp" THEN JsonTs(v.n) ELSE v
JSONstringify(obj) ==
    [json |-> [key \in {q \in DOMAIN obj : obj[q] # Undefined} |-> JSONvalue(obj[key])]]
JSONparse(str) == str.json

\* ------------------------------------------------------------ identities
Emails == {"a@x.com", "b@x.com"}
Passwords == {"secret1", "secret2"}
\* the password a caller registers with, and the one a caller changes to
RegisterPasswords == {"secret1"}
NewPasswords == {"secret2"}
UidOf(email) == IF email = "a@x.com" THEN "uidA" ELSE "uidB"
Uids == {UidOf(e) : e \in Emails}
EmailOf(uid) == CHOOSE e \in Emails : UidOf(e) = uid
NoUser == "none"
NoAccount == "none"
NoError == "none"
NoDoc == Null

\* user.getIdToken(): an opaque non-empty token issued for the user
IdToken(uid) == Str(uid)

\* profile fields a caller passes to register()
RegisterInputs ==
    { ("name" :> Str("Ann")) @@ ("birthdate" :> Str("1990-01-01")) @@ ("diabetesType" :> Str("Type 1")),
      ("diabetesType" :> Str("Type 2")) }
\* fields a caller passes to updateUserProfile()
UpdateInputs ==
    { ("name" :> Str("Bob")),
      ("diabetesType" :> Str("Type 2")) @@ ("birthdate" :> Str("2000-02-02")) }

\* ---------------------------------------------------------------- state
VARIABLES
    accounts,     \* identity provider: uid -> password, or NoAccount
    authUser,     \* auth().currentUser : a uid or NoUser
    docs,         \* firestore 'users' collection: uid -> document data or NoDoc
    storage,      \* AsyncStorage: key -> stored string or Null
    clock,        \* source of firestore.FieldValue.serverTimestamp()
    currentUser,  \* AuthProvider state: session view
    loading,      \* AuthProvider state
    error,        \* AuthProvider state
    notifs,       \* onAuthStateChanged notifications not yet delivered
    cbs,          \* listener callbacks awaiting authService.getCurrentUser()
    tasks,        \* operations in flight, by slot
    ret,          \* the last return of an operation or status query
    nOps          \* operations started and provider sign-outs so far

vars == <<accounts, authUser, docs, storage, clock, currentUser, loading, error,
          notifs, cbs, tasks, ret, nOps>>

Slots == 1..MaxInFlight
Idle == [op |-> "idle"]
NoRet == [op |-> "none"]

\* ret is the return of the last operation until the next operation starts or
\* the provider ends the session.  The result of a status query is observed in
\* the state it returns in only: the next step leaves the last operation's
\* return as the last return.
Queries == {"isAuthenticated", "getCurrentUser"}
LastOpReturn == IF ret.op \in Queries THEN ret.after ELSE ret
Kept == LastOpReturn

Busy == {s \in Slots : tasks[s] # Idle}
FreeSlot == CHOOSE s \in Slots : tasks[s] = Idle /\ \A q \in Slots : q < s => tasks[q] # Idle

\* limit = 1: calls are mutually exclusive (the UI disables its controls while
\* a call is in flight); limit = MaxInFlight: calls may overlap.
StartOK(limit, s) ==
    /\ nOps < MaxOps
    /\ Cardinality(Busy) < limit
    /\ Cardinality(Busy) < MaxInFlight
    /\ s = FreeSlot

NewTask(op, pc, email, pw, data) ==
    [op |-> op, pc |-> pc, email |-> email, pw |-> pw, data |-> data,
     user |-> NoUser, cu |-> NoUser, doc |-> Null, stored |-> Null, token |-> Null,
     reauth |-> "notcalled", calledUpdatePassword |-> FALSE, failedAt |-> "none",
     raised |-> NoError,
     \* what the call found when it started: the live identity and the cache
     found |-> [authUser |-> authUser, storage |-> storage]]

RetOf(t, ok, err) ==
    [op |-> t.op, ok |-> ok, err |-> err, val |-> Null, task |-> t, after |-> NoRet]

\* The AuthProvider wrapper around a service call (AuthContext.js 43-131):
\* setLoading(true); setError(null) before the call, setError(err.message)
\* in catch, setLoading(false) in finally.
CtxStart(s, t) ==
    /\ tasks' = [tasks EXCEPT ![s] = t]
    /\ loading' = TRUE
    /\ error' = NoError
    /\ ret' = NoRet
    /\ nOps' = nOps + 1

\* the operation in slot s goes on to its next await
Goes(s, t) ==
    /\ tasks' = [tasks EXCEPT ![s] = t]
    /\ ret' = Kept
    /\ UNCHANGED <<loading, error, nOps>>

\* a wrapper whose catch does not record the error
ThrowsFromSilently(s, t, err) ==
    /\ tasks' = [tasks EXCEPT ![s] = Idle]
    /\ ret' = RetOf([t EXCEPT !.failedAt = t.pc], FALSE, err)
    /\ loading' = FALSE
    /\ UNCHANGED <<error, nOps>>

\* the operation in slot s throws err at the call named by its pc
ThrowsFrom(s, t, err) ==
    /\ tasks' = [tasks EXCEPT ![s] = Idle]
    /\ ret' = RetOf([t EXCEPT !.failedAt = t.pc], FALSE, err)
    /\ loading' = FALSE
    /\ error' = err
    /\ UNCHANGED nOps

\* the collaborator call the operation in slot s awaits rejects with err; the
\* operation's catch logs it and rethrows it (`throw error`)
Throws(s, err) == ThrowsFrom(s, [tasks[s] EXCEPT !.raised = err], err)

\* the operation in slot s returns normally, t being its final frame
Returns(s, t) ==
    /\ tasks' = [tasks EXCEPT ![s] = Idle]
    /\ ret' = RetOf(t, TRUE, NoError)
    /\ loading' = FALSE
    /\ UNCHANGED <<error, nOps>>

\* The identity provider changes auth().currentUser and notifies the
\* onAuthStateChanged subscribers of the new identity.
SetAuthUser(u) ==
    /\ authUser' = u
    /\ notifs' = IF u = authUser THEN notifs ELSE Append(notifs, u)

CanNotify == Len(notifs) < MaxPending

\* register() writing the supplied fields without their `|| ''` / `|| null`
\* defaults
registerDocumentNoDefaults(email, userData, now) ==
    ("email" :> Str(email))
    @@ ("name" :> Get(userData, "name"))
    @@ ("birthdate" :> Get(userData, "birthdate"))
    @@ ("diabetesType" :> Get(userData, "diabetesType"))
    @@ ("createdAt" :> Ts(now))
    @@ ("lastLoginAt" :> Ts(now))

\* the profile document register() creates (authService.js 31-38)
registerDocument(email, userData, now) ==
    ("email" :> Str(email))
    @@ ("name" :> OrElse(Get(userData, "name"), Str("")))
    @@ ("birthdate" :> OrElse(Get(userData, "birthdate"), Null))
    @@ ("diabetesType" :> OrElse(Get(userData, "diabetesType"), Str("")))
    @@ ("createdAt" :> Ts(now))
    @@ ("lastLoginAt" :> Ts(now))

\* the snapshot login() caches (authService.js 88-94)
loginUserToStore(uid, userData) ==
    ("uid" :> Str(uid))
    @@ ("email" :> Str(EmailOf(uid)))
    @@ ("name" :> Get(userData, "name"))
    @@ ("birthdate" :> Get(userData, "birthdate"))
    @@ ("diabetesType" :> Get(userData, "diabetesType"))

\* the profile fields a@x.com registered with
EarlierInput ==
    ("name" :> Str("Ann")) @@ ("birthdate" :> Str("1990-01-01")) @@ ("diabetesType" :> Str("Type 1"))

\* The backend when the app starts: a@x.com registered earlier (and last
\* logged in at time 2), b@x.com never did.
EarlierDocument ==
    Spread(registerDocument("a@x.com", EarlierInput, 1), ("lastLoginAt" :> Ts(2)))

\* The app starts either on a fresh install (empty cache, no identity) or
\* with the session of a@x.com that an earlier run's login() left behind
\* (the provider restores the identity, the cache holds what login() wrote).
\* In both the provider's first onAuthStateChanged callback is pending.
Init ==
    /\ accounts = [u \in Uids |-> IF u = UidOf("a@x.com") THEN "secret1" ELSE NoAccount]
    /\ docs = [u \in Uids |-> IF u = UidOf("a@x.com") THEN EarlierDocument ELSE NoDoc]
    /\ clock = 2
    /\ \/ /\ authUser = NoUser
          /\ storage = (USER_DATA_KEY :> Null) @@ (AUTH_TOKEN_KEY :> Null)
       \/ /\ authUser = UidOf("a@x.com")
          /\ storage = (USER_DATA_KEY :>
                            JSONstringify(loginUserToStore(UidOf("a@x.com"), EarlierDocument)))
                       @@ (AUTH_TOKEN_KEY :> IdToken(UidOf("a@x.com")))
    /\ notifs = <<authUser>>
    /\ currentUser = Null
    /\ loading = TRUE
    /\ error = NoError
    /\ cbs = <<>>
    /\ tasks = [s \in Slots |-> Idle]
    /\ ret = NoRet
    /\ nOps = 0


\* ------------------------------------------------- AuthService.register
\* userToStore (authService.js 41-45)
registerUserToStore(uid, userData) ==
    Spread(("uid" :> Str(uid)) @@ ("email" :> Str(EmailOf(uid))), userData)

\* AuthProvider.register -> authService.register, up to the first await
register(limit, s, email, password, userData) ==
    /\ StartOK(limit, s)
    /\ CtxStart(s, NewTask("register", "createUser", email, password, userData))
    /\ UNCHANGED <<accounts, authUser, docs, storage, clock, currentUser, notifs, cbs>>

\* await auth().createUserWithEmailAndPassword(email, password)
registerCreateUser(s, fail) ==
    LET t == tasks[s]
        uid == UidOf(t.email)
    IN  /\ t.op = "register" /\ t.pc = "createUser"
        /\ IF fail
           THEN /\ Throws(s, "unavailable")
                /\ UNCHANGED <<accounts, authUser, notifs>>
           ELSE IF accounts[uid] # NoAccount
           THEN /\ Throws(s, "auth/email-already-in-use")
                /\ UNCHANGED <<accounts, authUser, notifs>>
           ELSE /\ CanNotify
                /\ accounts' = [accounts EXCEPT ![uid] = t.pw]
                /\ SetAuthUser(uid)
                /\ Goes(s, [t EXCEPT !.pc = "docSet", !.user = uid])
        /\ UNCHANGED <<docs, storage, clock, currentUser, cbs>>

\* register() caching the user together with the document write
registerDocSetCaching(s, fail) ==
    LET t == tasks[s]
    IN  /\ t.op = "register" /\ t.pc = "docSet"
        /\ storage' = [storage EXCEPT
               ![USER_DATA_KEY] = JSONstringify(registerUserToStore(t.user, t.data))]
        /\ IF fail
           THEN /\ Throws(s, "unavailable")
                /\ UNCHANGED <<docs, clock>>
           ELSE /\ clock' = clock + 1
                /\ docs' = [docs EXCEPT ![t.user] = registerDocument(t.email, t.data, clock + 1)]
                /\ Goes(s, [t EXCEPT !.pc = "setItem"])
        /\ UNCHANGED <<accounts, authUser, currentUser, notifs, cbs>>

\* await firestore().collection('users').doc(user.uid).set({...})
registerDocSet(s, fail) ==
    LET t == tasks[s]
    IN  /\ t.op = "register" /\ t.pc = "docSet"
        /\ IF fail
           THEN /\ Throws(s, "unavailable")
                /\ UNCHANGED <<docs, clock>>
           ELSE /\ clock' = clock + 1
                /\ docs' = [docs EXCEPT ![t.user] = registerDocument(t.email, t.data, clock + 1)]
                /\ Goes(s, [t EXCEPT !.pc = "setItem"])
        /\ UNCHANGED <<accounts, authUser, storage, currentUser, notifs, cbs>>

\* await AsyncStorage.setItem(USER_DATA_KEY, JSON.stringify(userToStore)); return user
registerSetItem(s, fail) ==
    LET t == tasks[s]
    IN  /\ t.op = "register" /\ t.pc = "setItem"
        /\ IF fail
           THEN /\ Throws(s, "storage")
                /\ UNCHANGED storage
           ELSE /\ storage' = [storage EXCEPT
                       ![USER_DATA_KEY] = JSONstringify(registerUserToStore(t.user, t.data))]
                /\ Returns(s, [t EXCEPT !.pc = "done"])
        /\ UNCHANGED <<accounts, authUser, docs, clock, currentUser, notifs, cbs>>

\* --------------------------------------------- AuthService.getCurrentUser
\* the live branch (authService.js 155-169): the profile read throws (the
\* outer catch returns null), finds the document, or finds none and falls
\* through to the cache
getCurrentUserLive(cu, fail) ==
    IF fail THEN [done |-> TRUE, val |-> Null]
    ELSE IF docs[cu] # NoDoc
    THEN [done |-> TRUE,
          val |-> Spread(("uid" :> Str(cu)) @@ ("email" :> Str(EmailOf(cu))), docs[cu])]
    ELSE [done |-> FALSE, val |-> Null]

\* getCurrentUser() without its cache fallback
getCurrentUserCachedNever(fail) == Null

\* the cache branch (authService.js 171-181)
getCurrentUserCached(fail) ==
    IF fail THEN Null
    ELSE IF storage[USER_DATA_KEY] # Null
    THEN JSONparse(storage[USER_DATA_KEY])
    ELSE Null

\* ------------------------------------- AuthProvider.setupAuthListener
RemoveAt(seq, i) == SubSeq(seq, 1, i - 1) \o SubSeq(seq, i + 1, Len(seq))

\* onAuthStateChanged invokes the callback with the next notification; the
\* callback runs to its first await: getCurrentUser() has read
\* auth().currentUser and awaits the profile read or the cache read.
listenerCallback ==
    /\ notifs # <<>>
    /\ notifs' = Tail(notifs)
    /\ IF Head(notifs) # NoUser
       THEN /\ cbs' = Append(cbs, [cu |-> authUser,
                                   pc |-> IF authUser # NoUser THEN "docGet" ELSE "getItem"])
            /\ UNCHANGED <<currentUser, loading>>
       ELSE /\ currentUser' = Null
            /\ loading' = FALSE
            /\ UNCHANGED cbs
    /\ ret' = Kept
    /\ UNCHANGED <<accounts, authUser, docs, storage, clock, error, tasks, nOps>>

\* the callback resumes when getCurrentUser() resolves:
\* setCurrentUser(userData); setLoading(false)
listenerResume(i, fail) ==
    /\ i \in 1..Len(cbs)
    /\ LET cb == cbs[i]
           live == getCurrentUserLive(cb.cu, fail)
       IN  IF cb.pc = "docGet" /\ ~live.done
           THEN /\ cbs' = [cbs EXCEPT ![i].pc = "getItem"]
                /\ UNCHANGED <<currentUser, loading>>
           ELSE /\ cbs' = RemoveAt(cbs, i)
                /\ currentUser' = IF cb.pc = "docGet" THEN live.val
                                  ELSE getCurrentUserCached(fail)
                /\ loading' = FALSE
    /\ ret' = Kept
    /\ UNCHANGED <<accounts, authUser, docs, storage, clock, error, notifs, tasks, nOps>>

\* --------------------------------------------------- AuthService.login
\* AuthProvider.login -> authService.login, up to the first await
login(limit, s, email, password) ==
    /\ StartOK(limit, s)
    /\ CtxStart(s, NewTask("login", "signIn", email, password, EmptyObj))
    /\ UNCHANGED <<accounts, authUser, docs, storage, clock, currentUser, notifs, cbs>>

\* await auth().signInWithEmailAndPassword(email, password)
loginSignIn(s, fail) ==
    LET t == tasks[s]
        uid == UidOf(t.email)
    IN  /\ t.op = "login" /\ t.pc = "signIn"
        /\ IF fail
           THEN /\ Throws(s, "unavailable")
                /\ UNCHANGED <<authUser, notifs>>
           ELSE IF accounts[uid] = NoAccount
           THEN /\ Throws(s, "auth/user-not-found")
                /\ UNCHANGED <<authUser, notifs>>
           ELSE IF accounts[uid] # t.pw
           THEN /\ Throws(s, "auth/wrong-password")
                /\ UNCHANGED <<authUser, notifs>>
           ELSE /\ authUser = uid \/ CanNotify
                /\ SetAuthUser(uid)
                /\ Goes(s, [t EXCEPT !.pc = "docUpdate", !.user = uid])
        /\ UNCHANGED <<accounts, docs, storage, clock, currentUser, cbs>>

\* login() stamping the document with set(..., {merge: true}), which
\* creates a missing document
loginDocUpdateCreating(s, fail) ==
    LET t == tasks[s]
    IN  /\ t.op = "login" /\ t.pc = "docUpdate"
        /\ IF fail
           THEN /\ Throws(s, "unavailable")
                /\ UNCHANGED <<docs, clock>>
           ELSE /\ clock' = clock + 1
                /\ docs' = [docs EXCEPT ![t.user] =
                               Spread(docs[t.user], ("lastLoginAt" :> Ts(clock + 1)))]
                /\ Goes(s, [t EXCEPT !.pc = "docGet"])
        /\ UNCHANGED <<accounts, authUser, storage, currentUser, notifs, cbs>>

\* login() going on without stamping the document
loginDocUpdateSkipped(s, fail) ==
    LET t == tasks[s]
    IN  /\ t.op = "login" /\ t.pc = "docUpdate"
        /\ IF fail
           THEN Throws(s, "unavailable")
           ELSE IF docs[t.user] = NoDoc
           THEN Throws(s, "firestore/not-found")
           ELSE Goes(s, [t EXCEPT !.pc = "docGet"])
        /\ UNCHANGED <<accounts, authUser, docs, storage, clock, currentUser, notifs, cbs>>

\* await firestore()...doc(user.uid).update({lastLoginAt: serverTimestamp()})
\* (update() rejects when the document does not exist)
loginDocUpdate(s, fail) ==
    LET t == tasks[s]
    IN  /\ t.op = "login" /\ t.pc = "docUpdate"
        /\ IF fail
           THEN /\ Throws(s, "unavailable")
                /\ UNCHANGED <<docs, clock>>
           ELSE IF docs[t.user] = NoDoc
           THEN /\ Throws(s, "firestore/not-found")
                /\ UNCHANGED <<docs, clock>>
           ELSE /\ clock' = clock + 1
                /\ docs' = [docs EXCEPT ![t.user] =
                               Spread(docs[t.user], ("lastLoginAt" :> Ts(clock + 1)))]
                /\ Goes(s, [t EXCEPT !.pc = "docGet"])
        /\ UNCHANGED <<accounts, authUser, storage, currentUser, notifs, cbs>>

\* const userDoc = await firestore()...doc(user.uid).get()
loginDocGet(s, fail) ==
    LET t == tasks[s]
    IN  /\ t.op = "login" /\ t.pc = "docGet"
        /\ IF fail
           THEN Throws(s, "unavailable")
           ELSE Goes(s, [t EXCEPT !.doc = docs[t.user],
                                  !.pc = IF docs[t.user] # NoDoc THEN "setItemUser"
                                         ELSE "getIdToken"])
        /\ UNCHANGED <<accounts, authUser, docs, storage, clock, currentUser, notifs, cbs>>

\* await AsyncStorage.setItem(USER_DATA_KEY, JSON.stringify({...}))
loginSetItemUser(s, fail) ==
    LET t == tasks[s]
    IN  /\ t.op = "login" /\ t.pc = "setItemUser"
        /\ IF fail
           THEN /\ Throws(s, "storage")
                /\ UNCHANGED storage
           ELSE /\ storage' = [storage EXCEPT
                       ![USER_DATA_KEY] = JSONstringify(loginUserToStore(t.user, t.doc))]
                /\ Goes(s, [t EXCEPT !.pc = "getIdToken"])
        /\ UNCHANGED <<accounts, authUser, docs, clock, currentUser, notifs, cbs>>

\* const token = await user.getIdToken()
loginGetIdToken(s, fail) ==
    LET t == tasks[s]
    IN  /\ t.op = "login" /\ t.pc = "getIdToken"
        /\ IF fail
           THEN Throws(s, "unavailable")
           ELSE Goes(s, [t EXCEPT !.token = IdToken(t.user), !.pc = "setItemToken"])
        /\ UNCHANGED <<accounts, authUser, docs, storage, clock, currentUser, notifs, cbs>>

\* await AsyncStorage.setItem(AUTH_TOKEN_KEY, token); return user
loginSetItemToken(s, fail) ==
    LET t == tasks[s]
    IN  /\ t.op = "login" /\ t.pc = "setItemToken"
        /\ IF fail
           THEN /\ Throws(s, "storage")
                /\ UNCHANGED storage
           ELSE /\ storage' = [storage EXCEPT ![AUTH_TOKEN_KEY] = t.token]
                /\ Returns(s, [t EXCEPT !.pc = "done"])
        /\ UNCHANGED <<accounts, authUser, docs, clock, currentUser, notifs, cbs>>

\* -------------------------------------------------- AuthService.logout
\* AuthProvider.logout -> authService.logout, up to the first await
logout(limit, s) ==
    /\ StartOK(limit, s)
    /\ CtxStart(s, NewTask("logout", "signOut", "", "", EmptyObj))
    /\ UNCHANGED <<accounts, authUser, docs, storage, clock, currentUser, notifs, cbs>>

\* await auth().signOut()
logoutSignOut(s, fail) ==
    LET t == tasks[s]
    IN  /\ t.op = "logout" /\ t.pc = "signOut"
        /\ IF fail
           THEN /\ Throws(s, "unavailable")
                /\ UNCHANGED <<authUser, notifs>>
           ELSE /\ authUser = NoUser \/ CanNotify
                /\ SetAuthUser(NoUser)
                /\ Goes(s, [t EXCEPT !.pc = "removeUserData"])
        /\ UNCHANGED <<accounts, docs, storage, clock, currentUser, cbs>>

\* await AsyncStorage.removeItem(USER_DATA_KEY)
logoutRemoveUserData(s, fail) ==
    LET t == tasks[s]
    IN  /\ t.op = "logout" /\ t.pc = "removeUserData"
        /\ IF fail
           THEN /\ Throws(s, "storage")
                /\ UNCHANGED storage
           ELSE /\ storage' = [storage EXCEPT ![USER_DATA_KEY] = Null]
                /\ Goes(s, [t EXCEPT !.pc = "removeToken"])
        /\ UNCHANGED <<accounts, authUser, docs, clock, currentUser, notifs, cbs>>

\* logout() returning without removing the token entry
logoutRemoveTokenSkipped(s, fail) ==
    LET t == tasks[s]
    IN  /\ t.op = "logout" /\ t.pc = "removeToken"
        /\ IF fail
           THEN Throws(s, "storage")
           ELSE Returns(s, [t EXCEPT !.pc = "done"])
        /\ UNCHANGED <<accounts, authUser, docs, storage, clock, currentUser, notifs, cbs>>

\* await AsyncStorage.removeItem(AUTH_TOKEN_KEY)
logoutRemoveToken(s, fail) ==
    LET t == tasks[s]
    IN  /\ t.op = "logout" /\ t.pc = "removeToken"
        /\ IF fail
           THEN /\ Throws(s, "storage")
                /\ UNCHANGED storage
           ELSE /\ storage' = [storage EXCEPT ![AUTH_TOKEN_KEY] = Null]
                /\ Returns(s, [t EXCEPT !.pc = "done"])
        /\ UNCHANGED <<accounts, authUser, docs, clock, currentUser, notifs, cbs>>

\* ------------------------------------------- AuthService.resetPassword
resetPassword(limit, s, email) ==
    /\ StartOK(limit, s)
    /\ CtxStart(s, NewTask("resetPassword", "sendPasswordResetEmail", email, "", EmptyObj))
    /\ UNCHANGED <<accounts, authUser, docs, storage, clock, currentUser, notifs, cbs>>

\* resetPassword() ending the local session once the e-mail is sent
resetPasswordSendClearing(s, fail) ==
    LET t == tasks[s]
    IN  /\ t.op = "resetPassword" /\ t.pc = "sendPasswordResetEmail"
        /\ IF fail
           THEN /\ Throws(s, "unavailable")
                /\ UNCHANGED storage
           ELSE IF accounts[UidOf(t.email)] = NoAccount
           THEN /\ Throws(s, "auth/user-not-found")
                /\ UNCHANGED storage
           ELSE /\ storage' = [storage EXCEPT ![AUTH_TOKEN_KEY] = Null]
                /\ Returns(s, [t EXCEPT !.pc = "done"])
        /\ UNCHANGED <<accounts, authUser, docs, clock, currentUser, notifs, cbs>>

\* await auth().sendPasswordResetEmail(email)
resetPasswordSend(s, fail) ==
    LET t == tasks[s]
    IN  /\ t.op = "resetPassword" /\ t.pc = "sendPasswordResetEmail"
        /\ IF fail THEN Throws(s, "unavailable")
           ELSE IF accounts[UidOf(t.email)] = NoAccount THEN Throws(s, "auth/user-not-found")
           ELSE Returns(s, [t EXCEPT !.pc = "done"])
        /\ UNCHANGED <<accounts, authUser, docs, storage, clock, currentUser, notifs, cbs>>

\* --------------------------------------- AuthService.updateUserProfile
\* the fields updateUserProfile() writes to the document (authService.js 201-204)
updateFields(userData, now) == Spread(userData, ("updatedAt" :> Ts(now)))

\* the pc at which a getCurrentUser() call suspends first, having read
\* auth().currentUser (authService.js 153-160, 172)
getCurrentUserFirstAwait(cu) == IF cu # NoUser THEN "gcuDocGet" ELSE "gcuGetItem"

\* updateUserProfile() caching the fields before it looks for a live identity
updateUserProfileNoUserWriting(limit, s, userData) ==
    /\ StartOK(limit, s)
    /\ authUser = NoUser
    /\ ret' = RetOf([NewTask("updateUserProfile", "currentUser", "", "", userData)
                        EXCEPT !.failedAt = "currentUser"],
                    FALSE, "No authenticated user found")
    /\ loading' = FALSE
    /\ error' = "No authenticated user found"
    /\ nOps' = nOps + 1
    /\ storage' = [storage EXCEPT ![USER_DATA_KEY] = JSONstringify(userData)]
    /\ UNCHANGED <<accounts, authUser, docs, clock, currentUser, notifs, cbs, tasks>>

\* AuthProvider.updateProfile -> authService.updateUserProfile with no
\* auth().currentUser: throws before any await
updateUserProfileNoUser(limit, s, userData) ==
    /\ StartOK(limit, s)
    /\ authUser = NoUser
    /\ ret' = RetOf([NewTask("updateUserProfile", "currentUser", "", "", userData)
                        EXCEPT !.failedAt = "currentUser"],
                    FALSE, "No authenticated user found")
    /\ loading' = FALSE
    /\ error' = "No authenticated user found"
    /\ nOps' = nOps + 1
    /\ UNCHANGED <<accounts, authUser, docs, storage, clock, currentUser, notifs, cbs, tasks>>

\* ... with a live identity: up to the first await
updateUserProfile(limit, s, userData) ==
    /\ StartOK(limit, s)
    /\ authUser # NoUser
    /\ CtxStart(s, [NewTask("updateUserProfile", "docUpdate", "", "", userData)
                       EXCEPT !.user = authUser])
    /\ UNCHANGED <<accounts, authUser, docs, storage, clock, currentUser, notifs, cbs>>

\* await firestore()...doc(currentUser.uid).update({...userData, updatedAt});
\* then this.getCurrentUser() runs to its first await
updateUserProfileDocUpdate(s, fail) ==
    LET t == tasks[s]
    IN  /\ t.op = "updateUserProfile" /\ t.pc = "docUpdate"
        /\ IF fail
           THEN /\ Throws(s, "unavailable")
                /\ UNCHANGED <<docs, clock>>
           ELSE IF docs[t.user] = NoDoc
           THEN /\ Throws(s, "firestore/not-found")
                /\ UNCHANGED <<docs, clock>>
           ELSE /\ clock' = clock + 1
                /\ docs' = [docs EXCEPT ![t.user] =
                               Spread(docs[t.user], updateFields(t.data, clock + 1))]
                /\ Goes(s, [t EXCEPT !.cu = authUser,
                                     !.pc = getCurrentUserFirstAwait(authUser)])
        /\ UNCHANGED <<accounts, authUser, storage, currentUser, notifs, cbs>>

\* getCurrentUser(): const userDoc = await firestore()...doc(currentUser.uid).get()
updateUserProfileDocGet(s, fail) ==
    LET t == tasks[s]
        live == getCurrentUserLive(t.cu, fail)
    IN  /\ t.op = "updateUserProfile" /\ t.pc = "gcuDocGet"
        /\ IF live.done
           THEN Goes(s, [t EXCEPT !.stored = live.val, !.pc = "setItem",
                                  !.raised = IF fail THEN "unavailable" ELSE NoError])
           ELSE Goes(s, [t EXCEPT !.pc = "gcuGetItem"])
        /\ UNCHANGED <<accounts, authUser, docs, storage, clock, currentUser, notifs, cbs>>

\* getCurrentUser(): const userDataString = await AsyncStorage.getItem(USER_DATA_KEY)
updateUserProfileGetItem(s, fail) ==
    LET t == tasks[s]
    IN  /\ t.op = "updateUserProfile" /\ t.pc = "gcuGetItem"
        /\ Goes(s, [t EXCEPT !.stored = getCurrentUserCached(fail), !.pc = "setItem",
                             !.raised = IF fail THEN "storage" ELSE NoError])
        /\ UNCHANGED <<accounts, authUser, docs, storage, clock, currentUser, notifs, cbs>>

\* await AsyncStorage.setItem(USER_DATA_KEY, JSON.stringify({...storedUserData,
\* ...userData})); back in AuthProvider.updateProfile:
\* setCurrentUser(prevUser => ({...prevUser, ...userData}))
updateUserProfileSetItem(s, fail) ==
    LET t == tasks[s]
    IN  /\ t.op = "updateUserProfile" /\ t.pc = "setItem"
        /\ IF fail
           THEN /\ Throws(s, "storage")
                /\ UNCHANGED <<storage, currentUser>>
           ELSE /\ storage' = [storage EXCEPT
                       ![USER_DATA_KEY] = JSONstringify(Spread(t.stored, t.data))]
                /\ currentUser' = Spread(currentUser, t.data)
                /\ Returns(s, [t EXCEPT !.pc = "done"])
        /\ UNCHANGED <<accounts, authUser, docs, clock, notifs, cbs>>

\* ---------------------- AuthService.reauthenticate / changePassword
\* a provider that accepts any password
reauthenticateWithCredentialAlways(uid, password, fail) == ~fail

\* currentUser.reauthenticateWithCredential(credential(currentUser.email, password))
\* resolves iff the provider is reachable and the password is the account's
reauthenticateWithCredential(uid, password, fail) ==
    ~fail /\ accounts[uid] = password

\* changePassword() going on whatever reauthenticate() returned
changePasswordProceedsAnyway(reauthenticated) == TRUE

\* if (!reauthenticated) throw new Error('Failed to reauthenticate user')
changePasswordProceeds(reauthenticated) == reauthenticated

\* AuthProvider.changePassword -> authService.changePassword ->
\* reauthenticate() with no auth().currentUser: reauthenticate() throws inside
\* its own try, returns false, and changePassword throws before any provider call
changePasswordNoUser(limit, s, currentPassword, newPassword) ==
    LET t == [NewTask("changePassword", "reauthenticate", "", currentPassword, EmptyObj)
                 EXCEPT !.token = newPassword, !.reauth = "false"]
    IN  /\ StartOK(limit, s)
        /\ authUser = NoUser
        /\ ~changePasswordProceeds(FALSE)
        /\ ret' = RetOf([t EXCEPT !.failedAt = "reauthenticate"],
                        FALSE, "Failed to reauthenticate user")
        /\ loading' = FALSE
        /\ error' = "Failed to reauthenticate user"
        /\ nOps' = nOps + 1
        /\ UNCHANGED <<accounts, authUser, docs, storage, clock, currentUser, notifs, cbs, tasks>>

\* ... with a live identity: up to the await in reauthenticate()
changePassword(limit, s, currentPassword, newPassword) ==
    /\ StartOK(limit, s)
    /\ authUser # NoUser
    /\ CtxStart(s, [NewTask("changePassword", "reauthenticate", "", currentPassword, EmptyObj)
                       EXCEPT !.token = newPassword, !.user = authUser])
    /\ UNCHANGED <<accounts, authUser, docs, storage, clock, currentUser, notifs, cbs>>

\* await currentUser.reauthenticateWithCredential(credential); reauthenticate()
\* returns true, or false from its catch; changePassword() then throws or reads
\* auth().currentUser again and calls updatePassword on it
changePasswordReauthenticate(s, fail) ==
    LET t == tasks[s]
        reauthenticated == reauthenticateWithCredential(t.user, t.pw, fail)
        t2 == [t EXCEPT !.reauth = IF reauthenticated THEN "true" ELSE "false",
                        !.raised = IF fail THEN "unavailable"
                                   ELSE IF ~reauthenticated THEN "auth/wrong-password"
                                   ELSE NoError]
    IN  /\ t.op = "changePassword" /\ t.pc = "reauthenticate"
        /\ IF ~changePasswordProceeds(reauthenticated)
           THEN ThrowsFrom(s, t2, "Failed to reauthenticate user")
           ELSE IF authUser = NoUser
           THEN ThrowsFrom(s, [t2 EXCEPT !.pc = "currentUser"], "TypeError")
           ELSE Goes(s, [t2 EXCEPT !.pc = "updatePassword", !.user = authUser,
                                   !.calledUpdatePassword = TRUE])
        /\ UNCHANGED <<accounts, authUser, docs, storage, clock, currentUser, notifs, cbs>>

\* await currentUser.updatePassword(newPassword); return true
changePasswordUpdatePassword(s, fail) ==
    LET t == tasks[s]
    IN  /\ t.op = "changePassword" /\ t.pc = "updatePassword"
        /\ IF fail
           THEN /\ Throws(s, "unavailable")
                /\ UNCHANGED accounts
           ELSE /\ accounts' = [accounts EXCEPT ![t.user] = t.token]
                /\ Returns(s, [t EXCEPT !.pc = "done"])
        /\ UNCHANGED <<authUser, docs, storage, clock, currentUser, notifs, cbs>>

\* ------------------------------------------------------ status queries
Bool(b) == [k |-> "bool", b |-> b]

\* A caller asks a status query with no operation in flight, once the
\* listener has nothing left to do (the listener writes nothing a status
\* query reads, so the query's answer is the one it gets any time since the
\* last operation returned).
MayAsk == Busy = {} /\ notifs = <<>> /\ cbs = <<>>

\* isAuthenticated() looking at the cached token only
isAuthenticatedTokenOnly(cu, tokenRead, fail) == ~fail /\ tokenRead # Null

\* authService.isAuthenticated() (authService.js 129-144); tokenRead is what
\* AsyncStorage.getItem(AUTH_TOKEN_KEY) resolved to, fail says it rejected
isAuthenticatedResult(cu, tokenRead, fail) ==
    IF cu # NoUser THEN TRUE
    ELSE IF fail THEN FALSE
    ELSE tokenRead # Null

\* what a status query hands its caller when nothing inside it threw
Resolved(val) == [ok |-> TRUE, err |-> NoError, val |-> val]

\* catch (error) { console.error(...); return false; }  (authService.js 140-143)
isAuthenticatedCatch(thrown) == Resolved(Bool(FALSE))

\* a caller asks authService.isAuthenticated() with no operation in flight
isAuthenticated(fail) ==
    LET outcome ==
            IF authUser = NoUser /\ fail THEN isAuthenticatedCatch("storage")
            ELSE Resolved(Bool(isAuthenticatedResult(authUser, storage[AUTH_TOKEN_KEY], fail)))
    IN
    /\ MayAsk
    /\ authUser # NoUser => ~fail
    /\ ret' = [op |-> "isAuthenticated", ok |-> outcome.ok, err |-> outcome.err,
               val |-> outcome.val,
               task |-> [cu |-> authUser, docFail |-> FALSE, cacheFail |-> fail,
                         cacheRead |-> authUser = NoUser],
               after |-> LastOpReturn]
    /\ UNCHANGED <<accounts, authUser, docs, storage, clock, currentUser, loading, error,
                   notifs, cbs, tasks, nOps>>

\* authService.getCurrentUser() start to end (authService.js 150-182)
getCurrentUserResult(cu, docFail, cacheFail) ==
    IF cu # NoUser /\ getCurrentUserLive(cu, docFail).done
    THEN getCurrentUserLive(cu, docFail).val
    ELSE getCurrentUserCached(cacheFail)

\* a getCurrentUser() whose catch rethrows
getCurrentUserCatchRethrows(thrown) == [ok |-> FALSE, err |-> thrown, val |-> Undefined]

\* catch (error) { console.error(...); return null; }  (authService.js 178-181)
getCurrentUserCatch(thrown) == Resolved(Null)

\* a caller asks authService.getCurrentUser() with no operation in flight
getCurrentUser(docFail, cacheFail) ==
    LET cacheRead == ~(authUser # NoUser /\ getCurrentUserLive(authUser, docFail).done)
        outcome ==
            IF docFail THEN getCurrentUserCatch("unavailable")
            ELSE IF cacheFail THEN getCurrentUserCatch("storage")
            ELSE Resolved(getCurrentUserResult(authUser, docFail, cacheFail))
    IN  /\ MayAsk
        /\ authUser = NoUser => ~docFail
        /\ ~cacheRead => ~cacheFail
        /\ ret' = [op |-> "getCurrentUser", ok |-> outcome.ok, err |-> outcome.err,
                   val |-> outcome.val,
                   task |-> [cu |-> authUser, docFail |-> docFail, cacheFail |-> cacheFail,
                             cacheRead |-> cacheRead],
                   after |-> LastOpReturn]
        /\ UNCHANGED <<accounts, authUser, docs, storage, clock, currentUser, loading, error,
                       notifs, cbs, tasks, nOps>>

\* ---------------------------------------------------- identity provider
\* The provider ends the session on its own (token revoked, account disabled)
\* and reports it to the onAuthStateChanged subscribers with user = null.
providerSignOut ==
    /\ nOps < MaxOps
    /\ authUser # NoUser
    /\ CanNotify
    /\ SetAuthUser(NoUser)
    /\ nOps' = nOps + 1
    /\ ret' = NoRet
    /\ UNCHANGED <<accounts, docs, storage, clock, currentUser, loading, error, cbs, tasks>>

\* ------------------------------------------------------- specification
\* a pending await settles: an operation in flight or a listener callback
\* runs on
Settles ==
    \/ \E s \in Busy, fail \in BOOLEAN : registerCreateUser(s, fail)
    \/ \E s \in Busy, fail \in BOOLEAN : registerDocSet(s, fail)
    \/ \E s \in Busy, fail \in BOOLEAN : registerSetItem(s, fail)
    \/ \E s \in Busy, fail \in BOOLEAN : loginSignIn(s, fail)
    \/ \E s \in Busy, fail \in BOOLEAN : loginDocUpdate(s, fail)
    \/ \E s \in Busy, fail \in BOOLEAN : loginDocGet(s, fail)
    \/ \E s \in Busy, fail \in BOOLEAN : loginSetItemUser(s, fail)
    \/ \E s \in Busy, fail \in BOOLEAN : loginGetIdToken(s, fail)
    \/ \E s \in Busy, fail \in BOOLEAN : loginSetItemToken(s, fail)
    \/ \E s \in Busy, fail \in BOOLEAN : logoutSignOut(s, fail)
    \/ \E s \in Busy, fail \in BOOLEAN : logoutRemoveUserData(s, fail)
    \/ \E s \in Busy, fail \in BOOLEAN : logoutRemoveToken(s, fail)
    \/ \E s \in Busy, fail \in BOOLEAN : resetPasswordSend(s, fail)
    \/ \E s \in Busy, fail \in BOOLEAN : updateUserProfileDocUpdate(s, fail)
    \/ \E s \in Busy, fail \in BOOLEAN : updateUserProfileDocGet(s, fail)
    \/ \E s \in Busy, fail \in BOOLEAN : updateUserProfileGetItem(s, fail)
    \/ \E s \in Busy, fail \in BOOLEAN : updateUserProfileSetItem(s, fail)
    \/ \E s \in Busy, fail \in BOOLEAN : changePasswordReauthenticate(s, fail)
    \/ \E s \in Busy, fail \in BOOLEAN : changePasswordUpdatePassword(s, fail)
    \/ listenerCallback
    \/ \E i \in 1..Len(cbs), fail \in BOOLEAN : listenerResume(i, fail)

\* the steps operations in flight, callbacks, the provider and the callers
\* of the status queries take
Step ==
    \/ Settles
    \/ providerSignOut
    \/ \E fail \in BOOLEAN : isAuthenticated(fail)
    \/ \E docFail, cacheFail \in BOOLEAN : getCurrentUser(docFail, cacheFail)

\* the calls a user of the app makes, at most `limit` of them in flight
Calls(limit) ==
    \/ \E s \in Slots, e \in Emails, p \in RegisterPasswords, d \in RegisterInputs :
           register(limit, s, e, p, d)
    \/ \E s \in Slots, e \in Emails, p \in Passwords : login(limit, s, e, p)
    \/ \E s \in Slots : logout(limit, s)
    \/ \E s \in Slots, e \in Emails : resetPassword(limit, s, e)
    \/ \E s \in Slots, d \in UpdateInputs : updateUserProfileNoUser(limit, s, d)
    \/ \E s \in Slots, d \in UpdateInputs : updateUserProfile(limit, s, d)
    \/ \E s \in Slots, p \in Passwords, n \in NewPasswords : changePasswordNoUser(limit, s, p, n)
    \/ \E s \in Slots, p \in Passwords, n \in NewPasswords : changePassword(limit, s, p, n)

\* Calls are mutually exclusive: the UI disables its controls while a call is
\* in flight.  Listener callbacks still run alongside the calls.
Next == Calls(1) \/ Step

Spec == Init /\ [][Next]_vars

\* A caller of the AuthProvider value may also start a call while another is
\* in flight: the service has no mutual exclusion of its own.
NextOverlapping == Calls(MaxInFlight) \/ Step

OverlappingSpec == Init /\ [][NextOverlapping]_vars

\* The JS event loop runs every continuation whose promise has settled and
\* delivers every queued notification: no await stays pending forever.
FairSpec == Spec /\ WF_vars(Settles)

\* ---------------------------------------------------------------- claims
CachedUserData == storage[USER_DATA_KEY]
CachedToken == storage[AUTH_TOKEN_KEY]
\* no operation in flight, no notification pending, no callback in flight
Quiescent == Busy = {} /\ notifs = <<>> /\ cbs = <<>>

\* C1: after any logout() call finishes, whether it succeeded or failed
\* because the remote sign-out call failed, neither the cached profile
\* snapshot nor the cached session token is present.
C1_LogoutAlwaysClearsCache ==
    (ret.op = "logout" /\ (ret.ok \/ ret.task.failedAt = "signOut"))
        => (CachedUserData = Null /\ CachedToken = Null)

\* C2: the service-level isAuthenticated() returns true when asked directly
\* after a login() that returned successfully (its own cache read, if it
\* makes one, not failing), and false when asked directly after a logout()
\* that returned successfully.
C2_IsAuthenticatedAfterLoginAndLogout ==
    /\ (ret.op = "isAuthenticated" /\ ret.after.op = "login" /\ ret.after.ok
           /\ ~ret.task.cacheFail)
           => ret.val = Bool(TRUE)
    /\ (ret.op = "isAuthenticated" /\ ret.after.op = "logout" /\ ret.after.ok)
           => ret.val = Bool(FALSE)

C2_Witness ==
    /\ ret.op = "isAuthenticated"
    /\ ret.after.op = "logout" /\ ret.after.ok
    /\ ret.val = Bool(FALSE)

\* C3: whenever reauthenticate(currentPassword) returns false (wrong
\* password, provider failure, or no live identity), changePassword() fails
\* with 'Failed to reauthenticate user' and updatePassword is never invoked:
\* no changePassword() awaits updatePassword without a true reauthenticate().
C3_ChangePasswordNeedsReauthentication ==
    /\ (ret.op = "changePassword" /\ ret.task.reauth = "false")
           => /\ ~ret.ok
              /\ ret.err = "Failed to reauthenticate user"
              /\ ~ret.task.calledUpdatePassword
    /\ \A s \in Busy :
           (tasks[s].op = "changePassword" /\ tasks[s].pc = "updatePassword")
               => tasks[s].reauth = "true"

C3_Witness ==
    /\ ret.op = "changePassword"
    /\ ret.task.reauth = "false"
    /\ ret.task.user # NoUser
    /\ ret.err = "Failed to reauthenticate user"

\* C4: with no live identity (and the cache read not failing),
\* getCurrentUser() returns the cached profile snapshot if the cache holds
\* one, and null if the cache is empty.
C4_NoIdentityFallsBackToCache ==
    (ret.op = "getCurrentUser" /\ ret.task.cu = NoUser /\ ~ret.task.cacheFail)
        => ret.val = IF CachedUserData # Null THEN JSONparse(CachedUserData) ELSE Null

C4_Witness ==
    /\ ret.op = "getCurrentUser"
    /\ ret.task.cu = NoUser
    /\ CachedUserData # Null
    /\ ret.val = JSONparse(CachedUserData)

\* C5: with a live identity, a failing profile read and a snapshot in the
\* cache, getCurrentUser() returns the cached snapshot, not null.
C5_UnreachableProfileFallsBackToCache ==
    (ret.op = "getCurrentUser" /\ ret.task.cu # NoUser /\ ret.task.docFail
        /\ CachedUserData # Null)
        => ret.val = JSONparse(CachedUserData)

\* the profile fields of the spec's data model
ProfileFields == {"name", "birthdate", "diabetesType"}
\* a field that was not supplied and a field that is none are the same
NoneOr(v) == IF v \in {Null, Undefined} THEN Null ELSE v
\* a getCurrentUser() asked directly after a successful register(), the new
\* identity being live and the profile read succeeding
ReadAfterRegister ==
    /\ ret.op = "getCurrentUser"
    /\ ret.after.op = "register" /\ ret.after.ok
    /\ ret.task.cu = ret.after.task.user
    /\ ~ret.task.docFail

C7_FailedRegisterLeavesSessionUnauthenticated ==
    (ret.op = "register" /\ ~ret.ok /\ ret.task.failedAt = "docSet" /\ Quiescent)
        => /\ accounts[UidOf(ret.task.email)] # NoAccount
           /\ ret.err # NoError
           /\ error = ret.err
           /\ currentUser = Null

\* C8: while the provider reports a live identity, the session
\* getCurrentUser() returns is none or carries the live identity's userId,
\* and is never taken from the cached snapshot.
C8_CacheNeverAuthoritativeWithLiveIdentity ==
    (ret.op = "getCurrentUser" /\ ret.task.cu # NoUser /\ ret.val # Null)
        => /\ Get(ret.val, "uid") = Str(ret.task.cu)
           /\ ~ret.task.cacheRead

\* C9: after a successful login(), register() or updateUserProfile() the cache
\* holds a profile snapshot and a session token, both of the acting user;
\* after a successful logout() both are absent.
C9_CacheWrittenOnEverySuccess ==
    /\ (ret.op \in {"login", "register", "updateUserProfile"} /\ ret.ok)
           => /\ CachedUserData # Null
              /\ CachedToken # Null
              /\ Get(JSONparse(CachedUserData), "uid") = Str(ret.task.user)
              /\ CachedToken = IdToken(ret.task.user)
    /\ (ret.op = "logout" /\ ret.ok)
           => (CachedUserData = Null /\ CachedToken = Null)

Starts(op) ==
    /\ nOps' = nOps + 1
    /\ \/ ret'.op = op /\ tasks' = tasks
       \/ \E s \in Slots : tasks[s] = Idle /\ tasks'[s].op = op

\* C11: updateUserProfile(fields) called while the provider reports no live
\* identity fails with 'No authenticated user found' and writes nothing: the
\* profile documents and both cache entries are unchanged, and no part of the
\* call is left to run.
C11_UpdateWithoutIdentityWritesNothing ==
    [][(authUser = NoUser /\ Starts("updateUserProfile"))
          => /\ ret'.op = "updateUserProfile"
             /\ ~ret'.ok
             /\ ret'.err = "No authenticated user found"
             /\ error' = "No authenticated user found"
             /\ docs' = docs
             /\ storage' = storage
             /\ tasks' = tasks]_vars

C11_Witness ==
    /\ ret.op = "updateUserProfile"
    /\ ret.task.failedAt = "currentUser"
    /\ ret.err = "No authenticated user found"
    /\ authUser = NoUser
    /\ CachedUserData # Null /\ CachedToken # Null

\* a step in which a call of op returns successfully from slot s
ReturnsOK(op, s) ==
    /\ tasks[s].op = op
    /\ tasks'[s] = Idle
    /\ ret'.op = op /\ ret'.ok

\* the session view a cache entry holds
CachedView(entry) == IF entry = Null THEN EmptyObj ELSE JSONparse(entry)

\* C12: after a successful updateUserProfile(fields) the cached snapshot is
\* the view the cache held before with fields merged over it: every key of
\* fields has its new value and every other key the cache held (userId and
\* email among them) keeps its value.  (No other call runs during the call,
\* so the cache before the step that writes it is the cache before the call.)
C12_UpdateMergesFieldsIntoCachedSnapshot ==
    [][\A s \in Slots : ReturnsOK("updateUserProfile", s) =>
          LET before == CachedView(storage[USER_DATA_KEY])
              after == CachedView(storage'[USER_DATA_KEY])
              fields == tasks[s].data
          IN  /\ \A key \in DOMAIN fields : Get(after, key) = fields[key]
              /\ \A key \in DOMAIN before \ DOMAIN fields :
                     Get(after, key) = before[key]]_vars

\* a step of a call of op: its start, one of its awaits, or its return
StepOf(op) ==
    \/ Starts(op)
    \/ \E s \in Slots : tasks[s].op = op /\ tasks'[s] # tasks[s]

\* C13: resetPassword(email) changes no local state, whether it succeeds or
\* fails: no step of the call changes either cache entry, the live identity
\* or the session view currentUser.
C13_ResetPasswordChangesNoLocalState ==
    [][StepOf("resetPassword")
          => /\ storage' = storage
             /\ authUser' = authUser
             /\ currentUser' = currentUser]_vars

C13_Witness ==
    /\ ret.op = "resetPassword" /\ ret.ok
    /\ authUser # NoUser
    /\ CachedUserData # Null /\ CachedToken # Null
    /\ currentUser # Null

\* the frame of the call in slot s after a step: still in flight, or returned
FrameAfter(s) == IF tasks'[s] # Idle THEN tasks'[s] ELSE ret'.task

\* C14: reauthenticate(password) never throws.  It returns true exactly when
\* there is a live identity and the provider accepts the credential, and
\* false otherwise (no live identity, rejection, provider failure); whatever
\* the provider raised, changePassword() sees a boolean and the only errors
\* it can end with at that point are its own.  (Identities of this app always
\* have an e-mail.)
C14_ReauthenticateReturnsBoolean ==
    [][/\ \A s \in Slots :
             (tasks[s].op = "changePassword" /\ tasks[s].pc = "reauthenticate"
                 /\ tasks'[s] # tasks[s])
             => LET t == tasks[s]
                    after == FrameAfter(s)
                IN  /\ after.reauth \in {"true", "false"}
                    /\ after.reauth = "true"
                           <=> /\ t.user # NoUser
                               /\ accounts[t.user] = t.pw
                               /\ after.raised = NoError
                    /\ tasks'[s] = Idle
                           => /\ ~ret'.ok
                              /\ ret'.err \in {"Failed to reauthenticate user", "TypeError"}
       /\ (authUser = NoUser /\ Starts("changePassword"))
             => /\ ret'.op = "changePassword"
                /\ ret'.task.reauth = "false"
                /\ ret'.err = "Failed to reauthenticate user"]_vars

C14_Witness ==
    /\ ret.op = "changePassword"
    /\ ret.task.user # NoUser
    /\ ret.task.pw = accounts[ret.task.user]
    /\ ret.task.raised = "unavailable"
    /\ ret.task.reauth = "false"

\* the operations that signal errors to their caller
Operations ==
    {"register", "login", "logout", "resetPassword", "updateUserProfile", "changePassword"}

\* C15: when an identity-provider, profile-store or cache call inside
\* register, login, logout, resetPassword, updateUserProfile or changePassword
\* fails, the operation fails and signals that same error, from the service
\* and through the AuthProvider wrapper (whose error state holds it).
C15_CollaboratorErrorsAreResignalledUnchanged ==
    (ret.op \in Operations /\ ret.task.raised # NoError)
        => /\ ~ret.ok
           /\ ret.err = ret.task.raised
           /\ error = ret.err

\* a JS object, as opposed to null, undefined, a string or a boolean
IsObject(v) == "k" \notin DOMAIN v

\* C16: the status queries never propagate an error: whichever call inside
\* them fails, isAuthenticated() returns a boolean and getCurrentUser()
\* returns a session object or null.
C16_StatusQueriesNeverThrow ==
    /\ ret.op = "isAuthenticated"
           => /\ ret.ok /\ ret.err = NoError
              /\ ret.val \in {Bool(TRUE), Bool(FALSE)}
    /\ ret.op = "getCurrentUser"
           => /\ ret.ok /\ ret.err = NoError
              /\ ret.val = Null \/ IsObject(ret.val)

C16_Witness ==
    /\ ret.op = "getCurrentUser"
    /\ ret.task.cu # NoUser
    /\ ret.task.docFail
    /\ ret.ok /\ ret.val = Null

\* C17: identity-change notifications take effect one after the other: once
\* every onAuthStateChanged callback has finished, currentUser reflects the
\* most recent notification.  When that notification was a sign-out (the
\* provider reports no identity) the session view is none, whatever an
\* earlier sign-in callback was still waiting for.  (updateProfile() writes
\* currentUser too; its returns are left aside.)
C17_LastNotificationWins ==
    (Quiescent /\ authUser = NoUser /\ ret.op # "updateUserProfile")
        => currentUser = Null

\* the Unknown state: nothing has happened since the app started but, maybe,
\* the delivery of the provider's first notification
Unknown == nOps = 0 /\ loading /\ currentUser = Null

\* a step in which a listener callback runs to its end
CallbackCompletes ==
    \/ notifs # <<>> /\ notifs' = Tail(notifs) /\ Head(notifs) = NoUser
    \/ Len(cbs') < Len(cbs)

\* C18: from Unknown, the first provider callback ends with loading false and
\* with the session view non-none when it carried an identity
\* (Authenticated), none when it carried none (Unauthenticated).
C18_FirstCallbackLeavesUnknown ==
    [][(Unknown /\ nOps' = 0 /\ CallbackCompletes)
          => /\ ~loading'
             /\ authUser # NoUser => currentUser' # Null
             /\ authUser = NoUser => currentUser' = Null]_vars

\* C19: after a successful logout() or a sign-out reported by the provider
\* the session eventually becomes Unauthenticated (currentUser none, so the
\* context's isAuthenticated() false) and stays so until a later sign-in or
\* registration: from some point on, whenever no identity is signed in the
\* session view is none.
C19_SignedOutSessionBecomesAndStaysNone ==
    <>[](authUser = NoUser => currentUser = Null)

\* C20: the session view shows no intermediate state: at the step in which
\* the context's login() returns successfully, with loading reset to false,
\* currentUser is non-none, and at the step in which the context's logout()
\* returns successfully currentUser is none.
C20_NoIntermediateStateAtReturn ==
    [][\A s \in Slots :
          /\ ReturnsOK("login", s) => (~loading' /\ currentUser' # Null)
          /\ ReturnsOK("logout", s) => currentUser' = Null]_vars

\* C21: register() creates the identity, then the profile document, then
\* writes the cache, and writes the cache only after both remote steps
\* succeeded: no step of a register() up to and including the document
\* creation changes a cache entry, and no step up to and including the
\* identity creation changes a profile document, so a register() failing at
\* one of them leaves the cache (and, at the first, the documents) as they
\* were.  The step that writes the cache finds the identity and the document.
C21_RegisterWritesCacheLast ==
    [][/\ Starts("register") => (storage' = storage /\ docs' = docs)
       /\ \A s \in Slots :
             (tasks[s].op = "register" /\ tasks'[s] # tasks[s])
             => LET t == tasks[s]
                IN  /\ t.pc \in {"createUser", "docSet"} => storage' = storage
                    /\ t.pc = "createUser" => docs' = docs
                    /\ docs' # docs => accounts[t.user] # NoAccount
                    /\ storage' # storage
                           => /\ t.pc = "setItem"
                              /\ accounts[t.user] # NoAccount
                              /\ docs[t.user] # NoDoc]_vars

C21_Witness ==
    /\ ret.op = "register" /\ ~ret.ok
    /\ ret.task.failedAt = "docSet"
    /\ accounts[ret.task.user] # NoAccount
    /\ docs[ret.task.user] = NoDoc
    /\ CachedUserData # Null
    /\ Get(JSONparse(CachedUserData), "uid") # Str(ret.task.user)

\* the last-login timestamp of a profile document
LastLoginAt(doc) == Get(doc, "lastLoginAt").n

\* the pcs of a login() after its document update
AfterDocUpdate == {"docGet", "setItemUser", "getIdToken", "setItemToken"}

\* C22: every successful login() strictly advances the last-login timestamp
\* of the signed-in user's profile document: a login() gets past its
\* document update only by a step that stamps the document with a later
\* time, and the stamp is still the latest one when the login() returns.  A
\* login() that fails at sign-in changes no document.
C22_LoginAdvancesLastLogin ==
    [][\A s \in Slots : tasks[s].op = "login" =>
          LET t == tasks[s]
          IN  /\ (t.pc = "signIn" /\ tasks'[s] # t) => docs' = docs
              /\ (t.pc \notin AfterDocUpdate /\ tasks'[s].op = "login"
                      /\ tasks'[s].pc \in AfterDocUpdate)
                     => /\ t.pc = "docUpdate"
                        /\ LastLoginAt(docs'[t.user]) > LastLoginAt(docs[t.user])
                        /\ \A u \in Uids \ {t.user} : docs'[u] = docs[u]
              /\ ReturnsOK("login", s)
                     => /\ t.pc \in AfterDocUpdate
                        /\ LastLoginAt(docs'[t.user]) = clock']_vars

C22_Witness ==
    /\ ret.op = "login" /\ ret.ok
    /\ LastLoginAt(docs[ret.task.user]) = 3
    /\ LastLoginAt(EarlierDocument) = 2

\* C23: every AuthProvider operation clears the error state when it starts;
\* when it finishes loading is false, and the error state is none if it
\* succeeded and the failure's message if it failed.  (Calls do not overlap.)
C23_ErrorAndLoadingFollowTheCall ==
    [][/\ \A s \in Slots :
             /\ (tasks[s] = Idle /\ tasks'[s] # Idle)
                    => (tasks'[s].op \in Operations /\ error' = NoError /\ loading')
             /\ (tasks[s] # Idle /\ tasks'[s] = Idle)
                    => /\ ret'.op = tasks[s].op
                       /\ ~loading'
                       /\ error' = IF ret'.ok THEN NoError ELSE ret'.err
       /\ (\E op \in Operations : Starts(op) /\ tasks' = tasks)
             => /\ ~loading'
                /\ ~ret'.ok
                /\ error' = ret'.err]_vars

C23_Witness ==
    /\ ret.op = "login" /\ ~ret.ok
    /\ ret.err = "auth/wrong-password"
    /\ error = "auth/wrong-password"
    /\ ~loading

\* C24: profile documents are never deleted and are created by register()
\* only: a document that exists still exists after every step, and a step
\* after which a userId has a document it did not have is the document
\* creation of a register() for that userId; login() and updateUserProfile()
\* only update documents that exist.
C24_DocumentsCreatedByRegisterNeverDeleted ==
    [][\A u \in Uids :
          /\ docs[u] # NoDoc => docs'[u] # NoDoc
          /\ (docs[u] = NoDoc /\ docs'[u] # NoDoc)
                 => \E s \in Slots : /\ tasks[s].op = "register"
                                     /\ tasks[s].pc = "docSet"
                                     /\ tasks[s].user = u
                                     /\ tasks'[s] # tasks[s]]_vars

C24_Witness ==
    /\ ret.op = "login" /\ ~ret.ok
    /\ ret.task.failedAt = "docUpdate"
    /\ ret.err = "firestore/not-found"
    /\ docs[ret.task.user] = NoDoc

\* C25: loading is true whenever a register, login, logout, resetPassword,
\* updateProfile or changePassword call is in flight, also when two calls
\* overlap; loading is false only when no call is in flight.
C25_LoadingWhileInFlight ==
    Busy # {} => loading

\* C26: a failed login() is atomic with respect to the authentication state:
\* whenever login() signals an error, also after a successful sign-in, the
\* provider reports no live identity for the account afterwards (unless the
\* account was signed in already when login() was called) and both cache
\* entries are as login() found them.
C26_FailedLoginIsAtomic ==
    (ret.op = "login" /\ ~ret.ok)
        => /\ \/ authUser # UidOf(ret.task.email)
              \/ ret.task.found.authUser = UidOf(ret.task.email)
           /\ storage = ret.task.found.storage

\* C27: in every quiescent state the two authentication signals agree: the
\* service's isAuthenticated() (its cache read not failing) returns true
\* exactly when the session view currentUser is non-none, that is when the
\* context's isAuthenticated() is true.
C27_TwoSignalsAgree ==
    (ret.op = "isAuthenticated" /\ ~ret.task.cacheFail /\ Quiescent)
        => ret.val = Bool(currentUser # Null)

\* the users the local authentication state speaks of: the live identity,
\* the owner of the cached snapshot and the owner of the cached token
\* (a snapshot without a userId speaks of nobody)
UsersInLocalState ==
    {Str(u) : u \in {authUser} \ {NoUser}}
    \cup ({Get(CachedView(CachedUserData), "uid")} \ {Undefined})
    \cup ({CachedToken} \ {Null})

\* C28: whatever the interleaving of register, login, logout and
\* updateUserProfile calls, once all calls have completed the cache is
\* self-consistent: the cached snapshot, the cached token and the live
\* identity, those of them that are present, belong to one userId.
C28_CacheSelfConsistentAtRest ==
    Quiescent => Cardinality(UsersInLocalState) <= 1

====
